---- MODULE Spec2Model ----
(***************************************************************************)
(* Route optimisation engine of the bar-hopping planner                    *)
(* (backend/app/services/simulation.py).                                   *)
(*                                                                         *)
(* Times are Python floats (IEEE-754 doubles) in the source.  Every time   *)
(* the engine computes is an integer number of minutes divided by 60, plus *)
(* a rounding error, so a double x is represented exactly by the record    *)
(*     [m |-> M, e |-> E]   with   x = (M * 2^58 + E) / (60 * 2^58),       *)
(* M the nominal minutes and E the accumulated rounding error in units of  *)
(* 2^-58 / 60 hour.  Division, addition, %, int() and the comparisons are  *)
(* the IEEE round-to-nearest-even operations on that representation.       *)
(***************************************************************************)
EXTENDS Integers, Sequences, FiniteSets, TLC

\* -------------------------------------------------------------------------
\* Configuration constants (simulation.py:30-40)
\* -------------------------------------------------------------------------
\* POPULARITY_FACTOR = 0.08, in hundredths
POPULARITY_FACTOR == 8
\* GROUP_SIZE_PENALTY = 0.05, in hundredths
GROUP_SIZE_PENALTY == 5
\* GAME_DAY_MULTIPLIER = 1.5, in tenths
GAME_DAY_MULTIPLIER == 15
TRAVEL_TIME_MINUTES == 7
STAY_DURATION_MINUTES == 60
MAX_BARS_IN_ROUTE == 5
MIN_START_HOUR == 17
MAX_START_HOUR == 23
\* the value calculate_wait_time returns for a name outside the roster
DEFAULT_UNKNOWN_WAIT == 15

\* -------------------------------------------------------------------------
\* Bounds of the model
\* -------------------------------------------------------------------------
\* longest request list drawn from the long base lists
MaxRequest == 6
\* longest request list drawn exhaustively from Pool
MaxShort == 2
\* largest group size tried
MaxGroup == 3

\* -------------------------------------------------------------------------
\* Bar data (simulation.py:55-206).  hours[day] is <<open, close>>, or
\* NoHours for None (closed that day).
\* -------------------------------------------------------------------------
Days == <<"monday", "tuesday", "wednesday", "thursday", "friday", "saturday", "sunday">>

NoHours == <<>>

Week(weekday, weekend, sun) ==
    [d \in {Days[i] : i \in 1..7} |->
        IF d \in {"friday", "saturday"} THEN weekend
        ELSE IF d = "sunday" THEN sun ELSE weekday]

BAR_ROSTER ==
    [name \in {"Chimy's", "Cricket's", "Bier Haus", "Atomic", "Bar PM", "Misquetes",
               "Wrecked", "The Library", "Bash's", "Electric Avenue"} |->
      CASE name = "Chimy's" ->
             [capacity |-> 200, popularity |-> 4, base_wait |-> 15,
              hours |-> Week(<<17, 2>>, <<16, 2>>, <<18, 0>>)]
        [] name = "Cricket's" ->
             [capacity |-> 180, popularity |-> 4, base_wait |-> 12,
              hours |-> Week(<<17, 2>>, <<16, 2>>, <<18, 0>>)]
        [] name = "Bier Haus" ->
             [capacity |-> 150, popularity |-> 3, base_wait |-> 10,
              hours |-> Week(<<16, 2>>, <<15, 2>>, <<17, 0>>)]
        [] name = "Atomic" ->
             [capacity |-> 120, popularity |-> 4, base_wait |-> 8,
              hours |-> Week(<<18, 2>>, <<17, 2>>, <<19, 0>>)]
        [] name = "Bar PM" ->
             [capacity |-> 100, popularity |-> 3, base_wait |-> 8,
              hours |-> Week(<<19, 2>>, <<18, 2>>, NoHours)]
        [] name = "Misquetes" ->
             [capacity |-> 140, popularity |-> 3, base_wait |-> 10,
              hours |-> Week(<<17, 2>>, <<16, 2>>, <<18, 0>>)]
        [] name = "Wrecked" ->
             [capacity |-> 160, popularity |-> 3, base_wait |-> 10,
              hours |-> Week(<<17, 2>>, <<16, 2>>, <<18, 0>>)]
        [] name = "The Library" ->
             [capacity |-> 130, popularity |-> 3, base_wait |-> 8,
              hours |-> Week(<<17, 2>>, <<16, 2>>, NoHours)]
        [] name = "Bash's" ->
             [capacity |-> 170, popularity |-> 4, base_wait |-> 12,
              hours |-> Week(<<17, 2>>, <<16, 2>>, <<18, 0>>)]
        [] name = "Electric Avenue" ->
             [capacity |-> 200, popularity |-> 4, base_wait |-> 15,
              hours |-> Week(<<18, 2>>, <<17, 2>>, NoHours)]]

\* -------------------------------------------------------------------------
\* Python float arithmetic
\* -------------------------------------------------------------------------
\* 2^n for 0 <= n <= 16
Pow2(n) == <<1, 2, 4, 8, 16, 32, 64, 128, 256, 512, 1024, 2048, 4096, 8192,
             16384, 32768, 65536>>[n + 1]

\* 2^n mod 60: 1, 2, then 4, 8, 16, 32 repeating
Pow2Mod60(n) == IF n < 2 THEN n + 1 ELSE <<16, 32, 4, 8>>[(n % 4) + 1]

\* k such that the unit in the last place of the double nearest to
\* (m * 2^58 + e) / (60 * 2^58) is 60 * 2^k units: the double lies in
\* [2^(k-6), 2^(k-5)) and has a 53-bit significand.
RECURSIVE UlpSearch(_, _, _)
UlpSearch(q, k, p) == IF 2 * p <= q THEN UlpSearch(q, k + 1, 2 * p) ELSE k

UlpExp(m, e) ==
    LET k == UlpSearch(64 * m, 0, 60)
    IN  IF 60 * Pow2(k) = 64 * m /\ e < 0 THEN k - 1 ELSE k

\* round-to-nearest, ties-to-even, of the exact value (m, e) to a double
FloatRound(m, e) ==
    IF m = 0 /\ e = 0 THEN [m |-> 0, e |-> 0]
    ELSE LET k  == UlpExp(m, e)
             u  == 60 * Pow2(k)
             r2 == (Pow2(k + 1) * ((m * Pow2Mod60(57 - k)) % 60) + e) % (2 * u)
             r  == r2 % u
         IN  IF 2 * r < u THEN [m |-> m, e |-> e - r]
             ELSE IF 2 * r > u THEN [m |-> m, e |-> e + (u - r)]
             ELSE IF r2 < u THEN [m |-> m, e |-> e - r]
             ELSE [m |-> m, e |-> e + (u - r)]

\* float(n) for an integer number of hours n
FloatOfInt(n) == [m |-> 60 * n, e |-> 0]

\* w / 60 for an integer w >= 0
FloatDiv60(w) == FloatRound(w, 0)

\* x + y
FloatAdd(x, y) == FloatRound(x.m + y.m, x.e + y.e)

\* x >= h and x < h for an integer hour h
FloatGE(x, h) == x.m > 60 * h \/ (x.m = 60 * h /\ x.e >= 0)

FloatLT(x, h) == ~FloatGE(x, h)

\* x % 24 (exact for doubles)
FloatMod24(x) ==
    LET k == IF x.m % 1440 = 0 /\ x.e < 0 THEN (x.m \div 1440) - 1 ELSE x.m \div 1440
    IN  [m |-> x.m - 1440 * k, e |-> x.e]

\* int(x) for 0 <= x
FloatInt(x) == IF x.m % 60 = 0 /\ x.e < 0 THEN (x.m \div 60) - 1 ELSE x.m \div 60

\* largest b with 2^b < n, for n >= 1 (0 for n = 1)
RECURSIVE Log2Search(_, _, _)
Log2Search(n, b, p) == IF 2 * p < n THEN Log2Search(n, b + 1, 2 * p) ELSE b

Log2Below(n) == Log2Search(n, 0, 1)

\* int((x - hours) * 60) for x in [0, 24) and hours = int(x): the
\* subtraction is exact, the product is rounded to a double, int() truncates
FracMinutes(x, hours) ==
    LET mm == x.m - 60 * hours
    IN  IF x.e >= 0 THEN mm
        ELSE IF 0 - x.e <= Pow2(Log2Below(mm) + 5) THEN mm
        ELSE mm - 1

\* -------------------------------------------------------------------------
\* format_time (simulation.py:215-228): <<hours, minutes>> of "HH:MM"
\* -------------------------------------------------------------------------
format_time(hour_float) ==
    LET h     == FloatMod24(hour_float)
        hours == FloatInt(h)
    IN  <<hours, FracMinutes(h, hours)>>

\* -------------------------------------------------------------------------
\* is_bar_open (simulation.py:231-260)
\* -------------------------------------------------------------------------
\* variant: a day without hours is not tested, the venue counts as open
is_bar_open_any_day(bar_name, hour, day) ==
    IF bar_name \notin DOMAIN BAR_ROSTER THEN FALSE
    ELSE LET hours == BAR_ROSTER[bar_name].hours[day]
         IN  IF hours = NoHours THEN TRUE
             ELSE LET open_hour  == hours[1]
                      close_hour == hours[2]
                  IN  IF close_hour < open_hour
                      THEN FloatGE(hour, open_hour) \/ FloatLT(hour, close_hour)
                      ELSE FloatGE(hour, open_hour) /\ FloatLT(hour, close_hour)

is_bar_open(bar_name, hour, day) ==
    IF bar_name \notin DOMAIN BAR_ROSTER THEN FALSE
    ELSE LET hours == BAR_ROSTER[bar_name].hours[day]
         IN  IF hours = NoHours THEN FALSE
             ELSE LET open_hour  == hours[1]
                      close_hour == hours[2]
                  IN  IF close_hour < open_hour
                      THEN FloatGE(hour, open_hour) \/ FloatLT(hour, close_hour)
                      ELSE FloatGE(hour, open_hour) /\ FloatLT(hour, close_hour)

\* -------------------------------------------------------------------------
\* calculate_wait_time (simulation.py:263-320)
\* -------------------------------------------------------------------------
Max(a, b) == IF a >= b THEN a ELSE b

\* Python round() of num/den: nearest integer, ties to even.  The float
\* product of the source and the exact product round to the same integer
\* for every roster bar, time tier and event flag when group_size <= 31.
RoundHalfEven(num, den) ==
    LET q == num \div den
        r == num % den
    IN  IF 2 * r < den THEN q
        ELSE IF 2 * r > den THEN q + 1
        ELSE IF q % 2 = 0 THEN q ELSE q + 1

\* time_factor in tenths
time_factor(arrival_hour) ==
    IF FloatGE(arrival_hour, 22) THEN 14
    ELSE IF FloatGE(arrival_hour, 21) THEN 12
    ELSE IF FloatGE(arrival_hour, 20) THEN 11
    ELSE 10

\* the product before rounding, as <<numerator, denominator>>
WaitProduct(bar, arrival_hour, group_size, is_game_day) ==
    <<bar.base_wait
        * time_factor(arrival_hour)
        * (100 + (bar.popularity - 3) * POPULARITY_FACTOR)
        * (100 + Max(0, group_size - 2) * GROUP_SIZE_PENALTY)
        * (IF is_game_day THEN GAME_DAY_MULTIPLIER ELSE 10),
      10 * 100 * 100 * 10>>

\* variant: the product taken for hours and converted to minutes the wrong way
calculate_wait_time_in_hours(bar_name, arrival_hour, group_size, is_game_day) ==
    IF bar_name \notin DOMAIN BAR_ROSTER THEN DEFAULT_UNKNOWN_WAIT
    ELSE LET p == WaitProduct(BAR_ROSTER[bar_name], arrival_hour, group_size, is_game_day)
         IN  RoundHalfEven(p[1], 60 * p[2])

\* variant: int(wait) without round()
calculate_wait_time_truncated(bar_name, arrival_hour, group_size, is_game_day) ==
    IF bar_name \notin DOMAIN BAR_ROSTER THEN DEFAULT_UNKNOWN_WAIT
    ELSE LET p == WaitProduct(BAR_ROSTER[bar_name], arrival_hour, group_size, is_game_day)
         IN  p[1] \div p[2]

calculate_wait_time(bar_name, arrival_hour, group_size, is_game_day) ==
    IF bar_name \notin DOMAIN BAR_ROSTER THEN DEFAULT_UNKNOWN_WAIT
    ELSE LET p == WaitProduct(BAR_ROSTER[bar_name], arrival_hour, group_size, is_game_day)
         IN  RoundHalfEven(p[1], p[2])

\* -------------------------------------------------------------------------
\* State
\* -------------------------------------------------------------------------
VARIABLES
    weekday,        \* datetime.now().weekday() + 1: the wall-clock day, 1 = monday
    pc,             \* position of the optimize_route call: "idle", "perms", "diagnose", "done"
    bars,           \* optimize_route arguments
    start_hour,
    group_size,
    is_game_day,
    valid_bars,     \* locals of optimize_route
    perm,           \* the permutations iterator: <<index tuple to yield next>>, or <<>> when exhausted
    best_route,
    best_result,
    best_wait,
    problematic,
    bar_i,          \* position of the diagnostic loop in valid_bars
    simulations,    \* number of simulate_route calls made by the call so far
    ret,            \* the returned pair, once the call is done
    ref,            \* history: an earlier call (arguments, day, returned pair) kept for comparison
    request,        \* the POST /optimize request being handled, if any
    response,       \* the HTTP response of the handler, once it has one
    catalog,        \* the module-level BAR_ROSTER object
    peer,           \* the locals of a second optimize_route call, while the other one runs
    _model,         \* the module globals of model.py: the cached model,
    _tokenizer,     \* the cached tokenizer,
    _model_loaded,  \* and the flag that says the cache is filled
    threads,        \* the callers of load_model_local: position and locals of each
    loads           \* history: how often the load sequence has run to success

vars == <<weekday, pc, bars, start_hour, group_size, is_game_day, valid_bars, perm,
          best_route, best_result, best_wait, problematic, bar_i, simulations, ret, ref,
          request, response, catalog, peer,
          _model, _tokenizer, _model_loaded, threads, loads>>

\* the model cache of model.py and its callers
model_cache == <<_model, _tokenizer, _model_loaded, threads, loads>>

\* Python None for Optional values: an Optional v is <<>> (None) or <<v>>
None == <<>>

Some(v) == <<v>>

\* float('inf')
Inf == -1

\* -------------------------------------------------------------------------
\* get_day_of_week (simulation.py:209-212)
\* -------------------------------------------------------------------------
get_day_of_week == Days[weekday]

\* -------------------------------------------------------------------------
\* simulate_route (simulation.py:323-397)
\* -------------------------------------------------------------------------
\* a reason string: its fixed text, the bar names and the time put into it
Reason(kind, names, at) == [kind |-> kind, names |-> names, at |-> at]

NoReason == Reason("None", <<>>, <<>>)

\* variant: the cause is dropped from an infeasible result
InfeasibleResultWithoutReason(reason) ==
    [feasible |-> FALSE, reason |-> NoReason, total_wait |-> 0, steps |-> <<>>]

InfeasibleResult(reason) ==
    [feasible |-> FALSE, reason |-> reason, total_wait |-> 0, steps |-> <<>>]

RECURSIVE SimulateFrom(_, _, _, _, _, _, _, _)
SimulateFrom(route, i, current_hour, total_wait, steps, g, game, day) ==
    IF i > Len(route)
    THEN [feasible |-> TRUE, reason |-> NoReason, total_wait |-> total_wait, steps |-> steps]
    ELSE LET bar_name == route[i]
         IN  IF bar_name \notin DOMAIN BAR_ROSTER
             THEN InfeasibleResult(Reason("Unknown bar", <<bar_name>>, <<>>))
             ELSE IF ~is_bar_open(bar_name, current_hour, day)
             THEN InfeasibleResult(
                      Reason("is closed at", <<bar_name>>, format_time(current_hour)))
             ELSE LET wait == calculate_wait_time(bar_name, current_hour, g, game)
                      departure_hour ==
                          FloatAdd(FloatAdd(current_hour, FloatDiv60(wait)),
                                   FloatDiv60(STAY_DURATION_MINUTES))
                      step == [bar     |-> bar_name,
                               arrival |-> format_time(current_hour),
                               depart  |-> format_time(departure_hour),
                               wait    |-> wait]
                      next_hour ==
                          IF i < Len(route)
                          THEN FloatAdd(departure_hour, FloatDiv60(TRAVEL_TIME_MINUTES))
                          ELSE current_hour
                  IN  SimulateFrom(route, i + 1, next_hour, total_wait + wait,
                                   Append(steps, step), g, game, day)

\* simulate_route raises TypeError on a start hour of None at the first
\* venue, if it is in the roster: is_bar_open compares None with open_hour,
\* or format_time takes None % 24 for the reason of a venue without hours
Raises(route, start) ==
    start = None /\ Len(route) > 0 /\ route[1] \in DOMAIN BAR_ROSTER

\* variant: total_wait = wait instead of total_wait += wait
simulate_route_last_wait(route, start, g, game, day) ==
    LET r == SimulateFrom(route, 1, start, 0, <<>>, g, game, day)
    IN  IF r.feasible /\ Len(r.steps) > 0
        THEN [r EXCEPT !.total_wait = r.steps[Len(r.steps)].wait]
        ELSE r

\* simulate_route evaluated on a given day of the week
simulate_route_on(route, start, g, game, day) ==
    SimulateFrom(route, 1, start, 0, <<>>, g, game, day)

simulate_route(route, start, g, game) ==
    simulate_route_on(route, start, g, game, get_day_of_week)

\* -------------------------------------------------------------------------
\* itertools.permutations(valid_bars) (simulation.py:449): tuples of
\* positions in lexicographic order, starting from the input order
\* -------------------------------------------------------------------------
SetMax(S) == CHOOSE x \in S : \A y \in S : y <= x

FirstPerm(n) == Some([i \in 1..n |-> i])

NextPerm(p) ==
    LET n   == Len(p)
        asc == {i \in 1..(n - 1) : p[i] < p[i + 1]}
    IN  IF asc = {} THEN None
        ELSE LET i == SetMax(asc)
                 j == SetMax({k \in (i + 1)..n : p[k] > p[i]})
                 s == [k \in 1..n |-> IF k = i THEN p[j] ELSE IF k = j THEN p[i] ELSE p[k]]
             IN  Some([k \in 1..n |-> IF k <= i THEN s[k] ELSE s[n + i + 1 - k]])

\* list(perm): the bars at the positions of a permutation
RouteOf(list, p) == [k \in 1..Len(p) |-> list[p[k]]]

\* -------------------------------------------------------------------------
\* optimize_route (simulation.py:400-473)
\* -------------------------------------------------------------------------
\* variant: the request is not filtered
KnownBarsUnfiltered(list) == list

\* valid_bars = [b for b in bars if b in BAR_ROSTER]
KnownBars(list) == SelectSeq(list, LAMBDA b : b \in DOMAIN BAR_ROSTER)

\* variant: valid_bars[-MAX_BARS_IN_ROUTE:]
TruncateKeepLast(list) ==
    IF Len(list) > MAX_BARS_IN_ROUTE
    THEN SubSeq(list, Len(list) - MAX_BARS_IN_ROUTE + 1, Len(list))
    ELSE list

\* valid_bars[:MAX_BARS_IN_ROUTE]
Truncate(list) ==
    IF Len(list) > MAX_BARS_IN_ROUTE THEN SubSeq(list, 1, MAX_BARS_IN_ROUTE) ELSE list

\* variant: the search starts from the total wait of the remembered call, as
\* a cache of the best wait kept across calls would make it
SeededBestWait == IF ref = None THEN Inf ELSE ref[1].ret.result.total_wait

\* variant: best_wait is a module global, a call starts from the value the
\* other call has reached
SharedBestWait == peer.best_wait

\* best_wait = float('inf')
InitialBestWait == Inf

\* variant: result["total_wait"] > best_wait
ImprovesWhenWorse(total_wait, best) == best = Inf \/ total_wait > best

\* variant: the initial best_wait is never beaten
ImprovesOnFinite(total_wait, best) == best # Inf /\ total_wait < best

\* variant: result["total_wait"] <= best_wait
ImprovesOrTies(total_wait, best) == best = Inf \/ total_wait <= best

\* result["total_wait"] < best_wait
Improves(total_wait, best) == best = Inf \/ total_wait < best

\* if best_route: None and the empty list are both false
Truthy(route) == route # None /\ route[1] # <<>>

\* variant: the ordering is handed back in reverse, not as it was simulated
ReturnedReversed(route, result) ==
    [route  |-> IF route = None THEN None
                ELSE Some([i \in 1..Len(route[1]) |-> route[1][Len(route[1]) + 1 - i]]),
     result |-> result]

Returned(route, result) == [route |-> route, result |-> result]

NotReturned == Returned(None, InfeasibleResult(NoReason))

\* variant: the closed bars are not named
ClosedReasonUnnamed(names) == Reason("No feasible route found", <<>>, <<>>)

\* ", ".join(problematic) inside the diagnostic reason
ClosedReason(names) ==
    IF names # <<>>
    THEN Reason("These bars are closed at that time", names, <<>>)
    ELSE Reason("No feasible route found", <<>>, <<>>)

\* -------------------------------------------------------------------------
\* Inputs tried
\* -------------------------------------------------------------------------
\* the roster names in the order of the BAR_ROSTER literal
RosterOrder ==
    <<"Chimy's", "Cricket's", "Bier Haus", "Atomic", "Bar PM", "Misquetes",
      "Wrecked", "The Library", "Bash's", "Electric Avenue">>

\* a request that repeats a name and ends with names outside the roster
RepeatOrder ==
    <<"Chimy's", "Chimy's", "Cricket's", "Bier Haus", "Atomic", "Bar PM",
      "Nowhere", "Misquetes", "Wrecked", "Elsewhere">>

Pool == {"Chimy's", "Bar PM", "Misquetes", "Wrecked", "Nowhere"}

ShortLists == UNION {[1..n -> Pool] : n \in 0..MaxShort}

\* prefixes of the two long requests: the shortest not in ShortLists, and the longest
LongLists ==
    {SubSeq(base, 1, n) : base \in {RosterOrder, RepeatOrder}, n \in {MaxShort + 1, MaxRequest}}

BarLists == ShortLists \cup LongLists

\* start times tried, <<hour, minutes>>
StartTimes == {<<17, 0>>, <<20, 20>>, <<23, 0>>}

\* start hours as a caller computes them: hour + minutes / 60.0
StartHours == {FloatAdd(FloatOfInt(t[1]), FloatDiv60(t[2])) : t \in StartTimes}

\* a start after midnight, inside the overnight window of the day's hours
LateTimes == {<<1, 0>>}

LateHours == {FloatAdd(FloatOfInt(t[1]), FloatDiv60(t[2])) : t \in LateTimes}

GroupSizes == 2..MaxGroup

\* -------------------------------------------------------------------------
\* Initial state: no call in progress, any day of the week
\* -------------------------------------------------------------------------
NoCall ==
    /\ pc = "idle"
    /\ bars = <<>>
    /\ start_hour = FloatOfInt(0)
    /\ group_size = 2
    /\ is_game_day = FALSE
    /\ valid_bars = <<>>
    /\ perm = None
    /\ best_route = None
    /\ best_result = None
    /\ best_wait = Inf
    /\ problematic = <<>>
    /\ bar_i = 1
    /\ simulations = 0
    /\ ret = NotReturned

\* the locals of a call that has not started
NoLocals ==
    [pc |-> "idle", bars |-> <<>>, start_hour |-> FloatOfInt(0), group_size |-> 2,
     is_game_day |-> FALSE, valid_bars |-> <<>>, perm |-> None, best_route |-> None,
     best_result |-> None, best_wait |-> Inf, problematic |-> <<>>, bar_i |-> 1,
     simulations |-> 0, ret |-> NotReturned]

\* the threads that call load_model_local: the executor threads that run
\* generate_local and the event-loop thread that runs check_model_health
MaxThreads == 3

Threads == 1..MaxThreads

\* successful loads after which no further call is started
MaxLoads == 2

\* a thread outside load_model_local
IdleThread == [pc |-> "idle", path |-> "none", model |-> None, tokenizer |-> None]

Init ==
    /\ weekday \in 1..7
    /\ NoCall
    /\ ref = None
    /\ request = None
    /\ response = None
    /\ catalog = BAR_ROSTER
    /\ peer = NoLocals
    /\ _model = None
    /\ _tokenizer = None
    /\ _model_loaded = FALSE
    /\ threads = [t \in Threads |-> IdleThread]
    /\ loads = 0

\* -------------------------------------------------------------------------
\* optimize_route, entry to the start of the search (simulation.py:424-447)
\* -------------------------------------------------------------------------
Call(b, s, g, game) ==
    /\ pc = "idle"
    /\ bars' = b
    /\ start_hour' = s
    /\ group_size' = g
    /\ is_game_day' = game
    /\ best_route' = None
    /\ best_result' = None
    /\ best_wait' = InitialBestWait
    /\ problematic' = <<>>
    /\ bar_i' = 1
    /\ UNCHANGED <<weekday, ref>>
    /\ IF Len(b) = 0
       THEN /\ ret' = Returned(None, InfeasibleResult(Reason("No bars specified", <<>>, <<>>)))
            /\ valid_bars' = <<>>
            /\ perm' = None
            /\ simulations' = 0
            /\ pc' = "done"
       ELSE IF Len(KnownBars(b)) = 0
       THEN /\ ret' = Returned(None, InfeasibleResult(Reason("No recognized bars", <<>>, <<>>)))
            /\ valid_bars' = <<>>
            /\ perm' = None
            /\ simulations' = 0
            /\ pc' = "done"
       ELSE LET valid == Truncate(KnownBars(b))
            IN  /\ valid_bars' = valid
                /\ IF Len(valid) = 1
                   THEN IF Raises(valid, s)
                        THEN /\ ret' = NotReturned
                             /\ perm' = None
                             /\ simulations' = 1
                             /\ pc' = "raised"
                        ELSE LET result == simulate_route(valid, s, g, game)
                             IN  /\ ret' = IF result.feasible
                                           THEN Returned(Some(valid), result)
                                           ELSE Returned(None, result)
                                 /\ perm' = None
                                 /\ simulations' = 1
                                 /\ pc' = "done"
                   ELSE /\ ret' = NotReturned
                        /\ perm' = FirstPerm(Len(valid))
                        /\ simulations' = 0
                        /\ pc' = "perms"

\* one iteration of `for perm in permutations(valid_bars)` (simulation.py:449-456)
TryPermutation ==
    /\ pc = "perms"
    /\ perm # None
    /\ LET route == RouteOf(valid_bars, perm[1])
       IN  IF Raises(route, start_hour)
           THEN /\ pc' = "raised"
                /\ UNCHANGED <<best_wait, best_route, best_result>>
           ELSE LET result == simulate_route(route, start_hour, group_size, is_game_day)
                IN  /\ pc' = pc
                    /\ IF result.feasible /\ Improves(result.total_wait, best_wait)
                       THEN /\ best_wait' = result.total_wait
                            /\ best_route' = Some(route)
                            /\ best_result' = Some(result)
                       ELSE UNCHANGED <<best_wait, best_route, best_result>>
    /\ perm' = NextPerm(perm[1])
    /\ simulations' = simulations + 1
    /\ UNCHANGED <<weekday, bars, start_hour, group_size, is_game_day, valid_bars,
                   problematic, bar_i, ret, ref, request, response, catalog, peer, model_cache>>

\* the iterator is exhausted: return the best route, or go on to the
\* diagnosis (simulation.py:458-462)
EndSearch ==
    /\ pc = "perms"
    /\ perm = None
    /\ IF Truthy(best_route)
       THEN /\ ret' = Returned(best_route, best_result[1])
            /\ pc' = "done"
       ELSE /\ ret' = NotReturned
            /\ pc' = "diagnose"
    /\ problematic' = <<>>
    /\ bar_i' = 1
    /\ UNCHANGED <<weekday, bars, start_hour, group_size, is_game_day, valid_bars, perm,
                   best_route, best_result, best_wait, simulations, ref, request, response, catalog, peer, model_cache>>

\* one iteration of `for bar in valid_bars` (simulation.py:463-466)
Diagnose ==
    /\ pc = "diagnose"
    /\ bar_i <= Len(valid_bars)
    /\ LET bar  == valid_bars[bar_i]
           test == simulate_route(<<bar>>, start_hour, group_size, is_game_day)
       IN  problematic' = IF ~test.feasible THEN Append(problematic, bar) ELSE problematic
    /\ bar_i' = bar_i + 1
    /\ simulations' = simulations + 1
    /\ UNCHANGED <<weekday, pc, bars, start_hour, group_size, is_game_day, valid_bars, perm,
                   best_route, best_result, best_wait, ret, ref, request, response, catalog, peer, model_cache>>

\* the diagnostic result (simulation.py:468-473)
Explain ==
    /\ pc = "diagnose"
    /\ bar_i > Len(valid_bars)
    /\ ret' = Returned(None, InfeasibleResult(ClosedReason(problematic)))
    /\ pc' = "done"
    /\ UNCHANGED <<weekday, bars, start_hour, group_size, is_game_day, valid_bars, perm,
                   best_route, best_result, best_wait, problematic, bar_i, simulations, ref,
                   request, response, catalog, peer, model_cache>>

\* the call is over (returned or raised); its locals are gone
Release ==
    /\ pc \in {"done", "raised"}
    /\ pc' = "idle"
    /\ bars' = <<>>
    /\ start_hour' = FloatOfInt(0)
    /\ group_size' = 2
    /\ is_game_day' = FALSE
    /\ valid_bars' = <<>>
    /\ perm' = None
    /\ best_route' = None
    /\ best_result' = None
    /\ best_wait' = Inf
    /\ problematic' = <<>>
    /\ bar_i' = 1
    /\ simulations' = 0
    /\ ret' = NotReturned
    /\ UNCHANGED weekday

\* a direct caller of optimize_route has the pair
Finish ==
    /\ request = None
    /\ Release
    /\ UNCHANGED <<ref, request, response, catalog, peer, model_cache>>

\* the same, and the call is kept in the history if none is kept yet
FinishRemember ==
    /\ request = None
    /\ ref = None
    /\ ref' = Some([bars |-> bars, start_hour |-> start_hour, group_size |-> group_size,
                    is_game_day |-> is_game_day, day |-> get_day_of_week, ret |-> ret])
    /\ Release
    /\ UNCHANGED <<request, response, catalog, peer, model_cache>>

\* midnight passes between two calls: datetime.now().weekday() moves on
Midnight ==
    /\ pc = "idle"
    /\ weekday' = (weekday % 7) + 1
    /\ UNCHANGED <<pc, bars, start_hour, group_size, is_game_day, valid_bars, perm,
                   best_route, best_result, best_wait, problematic, bar_i, simulations, ret,
                   ref, request, response, catalog, peer, model_cache>>

Next ==
    \/ \E b \in BarLists, s \in StartHours \cup LateHours, g \in GroupSizes, game \in BOOLEAN :
           Call(b, s, g, game) /\ UNCHANGED <<request, response, catalog, peer, model_cache>>
    \/ TryPermutation
    \/ EndSearch
    \/ Diagnose
    \/ Explain
    \/ Finish
    \/ Midnight

Spec == Init /\ [][Next]_vars

\* Repeated calls: a few requests, each call possibly kept in the history
RepeatLists == {<<"Chimy's", "Bar PM">>, <<"Misquetes", "Wrecked">>, SubSeq(RosterOrder, 1, 3)}

NextRepeat ==
    \/ \E b \in RepeatLists, s \in StartHours, g \in GroupSizes :
           Call(b, s, g, FALSE) /\ UNCHANGED <<request, response, catalog, peer, model_cache>>
    \/ TryPermutation
    \/ EndSearch
    \/ Diagnose
    \/ Explain
    \/ Finish
    \/ FinishRemember
    \/ Midnight

SpecRepeat == Init /\ [][NextRepeat]_vars

\* -------------------------------------------------------------------------
\* Text parser (nlu.py).  A message is described by what the patterns of
\* the parser find in it: the set of canonical bar names, the time
\* expression, the group expression and whether an event word occurs.
\* -------------------------------------------------------------------------
TimeText(pattern, hour, minutes, period) ==
    [pattern |-> pattern, hour |-> hour, minutes |-> minutes, period |-> period]

GroupText(pattern, n) == [pattern |-> pattern, n |-> n]

\* the 12-hour conversion of extract_time (nlu.py:222-226, 236-240)
Hour24(hour, period) ==
    IF period = "pm" THEN (IF hour # 12 THEN hour + 12 ELSE hour)
    ELSE IF hour = 12 THEN 0 ELSE hour

\* patterns 4 and 5: a bare hour is taken as PM and kept only within 17..23
EveningHour(hour) ==
    LET h == IF hour < 12 /\ hour >= 1 THEN hour + 12 ELSE hour
    IN  IF 17 <= h /\ h <= 23 THEN FloatOfInt(h) ELSE None

\* extract_time (nlu.py:193-277): decimal hours, or None
extract_time(t) ==
    IF t.pattern = "12h_minutes"
    THEN FloatAdd(FloatOfInt(Hour24(t.hour, t.period)), FloatDiv60(t.minutes))
    ELSE IF t.pattern = "12h" THEN FloatOfInt(Hour24(t.hour, t.period))
    ELSE IF t.pattern = "24h" THEN FloatAdd(FloatOfInt(t.hour), FloatDiv60(t.minutes))
    ELSE IF t.pattern = "context" THEN EveningHour(t.hour)
    ELSE IF t.pattern = "word"
    THEN LET hour == IF t.hour >= 12 THEN t.hour ELSE t.hour + 12
         IN  IF 17 <= hour /\ hour <= 23 THEN FloatOfInt(hour) ELSE None
    ELSE None

\* extract_group_size (nlu.py:280-328)
extract_group_size(g) ==
    IF g.pattern \in {"friends", "me and"} THEN g.n + 1
    ELSE IF g.pattern \in {"party of", "people", "word"} THEN g.n
    ELSE 2

\* list(found_bars): the orders in which a set can be listed; the order of
\* a set of str follows the string hashes, which are seeded per process
ListsOf(S) ==
    {l \in [1..Cardinality(S) -> S] : \A i, j \in 1..Cardinality(S) : i # j => l[i] # l[j]}

\* parse_user_request (nlu.py:363-395), with found_bars listed as b
parse_user_request(msg, b) ==
    [bars        |-> b,
     start_time  |-> extract_time(msg.time),
     group_size  |-> extract_group_size(msg.group),
     is_game_day |-> msg.game]

\* -------------------------------------------------------------------------
\* POST /optimize (routes/optimizer.py:122-291)
\* -------------------------------------------------------------------------
\* dict.get(key, default): the default is for a missing key only
DictGet(d, key, default) == IF key \in DOMAIN d THEN d[key] ELSE default

\* RouteRequest.group_size: Optional[int], default 2, ge 1, le 20
\* (optimizer.py:58-63); the body gives a value, null, or omits the field
Validates(body) == body.given = "value" => (1 <= body.value /\ body.value <= 20)

RouteRequest(msg, body) ==
    [message    |-> msg,
     group_size |-> IF body.given = "omitted" THEN Some(2)
                    ELSE IF body.given = "null" THEN None
                    ELSE Some(body.value),
     use_llm    |-> body.use_llm,
     \* the fields the body supplied (pydantic's model_fields_set)
     fields_set |-> IF body.given = "omitted" THEN {"message", "use_llm"}
                    ELSE {"message", "use_llm", "group_size"}]

\* MODEL_BACKEND of the process (model.py:31)
Backends == {"disabled", "local", "huggingface"}

\* what the backend does with one prompt: it fails, answers with JSON that
\* is no non-empty list, with an entry that has no generated_text, with
\* empty text, or with text
Replies == {"failed", "no_list", "no_text", "empty", "text"}

\* generate_huggingface (model.py:213-265)
generate_huggingface(reply) ==
    IF reply \in {"failed", "no_list"} THEN None
    ELSE IF reply \in {"no_text", "empty"} THEN Some("")
    ELSE Some("generated")

\* what generate_local returns (model.py:156-206): None when the model is
\* not loaded or generation raises, else the decoded text, stripped
generate_local(reply) ==
    IF reply \in {"failed", "no_list", "no_text"} THEN None
    ELSE IF reply = "empty" THEN Some("")
    ELSE Some("generated")

\* generate_response (model.py:337-375)
generate_response(backend, reply) ==
    IF backend = "local" THEN generate_local(reply)
    ELSE IF backend = "huggingface" THEN generate_huggingface(reply)
    ELSE None

\* what a call of generate_response can return
Generations == {generate_response(backend, reply) : backend \in Backends, reply \in Replies}

\* generate_fallback_response (model.py:382-442), by the kind of its text
generate_fallback_response(route_info) ==
    IF ~route_info.feasible THEN "I couldn't find a feasible route"
    ELSE IF route_info.steps = <<>> THEN "I found a route but couldn't format it"
    ELSE "Here's your optimized bar hopping route!"

\* the fixed text of the no-bars response (optimizer.py:182-186)
NoBarsText == "I couldn't identify any bars in your request."

\* llm_used as the handler computes it: `message is not None`
LlmUsed(llm) == llm # None

\* `not message` of Python for an Optional[str]
NotText(llm) == llm = None \/ llm[1] = ""

\* ParsedInfo (optimizer.py:71-84, 158-163)
ParsedInfo(parsed) ==
    [bars        |-> DictGet(parsed, "bars", <<>>),
     start_time  |-> DictGet(parsed, "start_time", None),
     group_size  |-> DictGet(parsed, "group_size", 2),
     is_game_day |-> DictGet(parsed, "is_game_day", FALSE)]

\* a or b of Python, for an Optional[int] a
Or(a, b) == IF a # None /\ a[1] # 0 THEN a[1] ELSE b

RouteResponse(status, steps, total, message, parsed_info, llm_used) ==
    [status |-> status, itinerary |-> steps, total_wait_time |-> total,
     message |-> message, parsed_info |-> parsed_info, llm_used |-> llm_used]

\* an HTTP error instead of a RouteResponse: 422 from validation, 500 from
\* the handler's except (optimizer.py:285-291)
HTTPException(status_code) ==
    [status |-> status_code, itinerary |-> <<>>, total_wait_time |-> 0,
     message |-> "detail", parsed_info |-> None, llm_used |-> FALSE]

\* the steps as StopInfo entries (optimizer.py:247-254)
Itinerary(steps) ==
    [i \in 1..Len(steps) |->
        [venue_name     |-> steps[i].bar,
         arrival_time   |-> steps[i].arrival,
         departure_time |-> steps[i].depart,
         expected_wait  |-> steps[i].wait]]

\* the request arrives: validation, parsing, and the call of optimize_route
\* up to the start of its search (optimizer.py:148-207)
Post(msg, body, b) ==
    /\ pc = "idle"
    /\ request = None
    /\ response = None
    /\ b \in ListsOf(msg.bars)
    /\ request' = Some(RouteRequest(msg, body))
    /\ UNCHANGED <<catalog, peer, model_cache>>
    /\ IF ~Validates(body)
       THEN /\ response' = Some(HTTPException("422"))
            /\ UNCHANGED <<weekday, pc, bars, start_hour, group_size, is_game_day,
                           valid_bars, perm, best_route, best_result, best_wait,
                           problematic, bar_i, simulations, ret, ref>>
       ELSE LET parsed == parse_user_request(msg, b)
            IN  IF parsed.bars = <<>>
                THEN /\ \E generated \in Generations :
                            LET llm_message == IF body.use_llm THEN generated ELSE None
                            IN  response' =
                                    Some(RouteResponse("error", <<>>, 0,
                                                       IF NotText(llm_message) THEN NoBarsText
                                                       ELSE llm_message[1],
                                                       ParsedInfo(parsed),
                                                       LlmUsed(llm_message)))
                     /\ UNCHANGED <<weekday, pc, bars, start_hour, group_size, is_game_day,
                                    valid_bars, perm, best_route, best_result, best_wait,
                                    problematic, bar_i, simulations, ret, ref>>
                ELSE /\ response' = None
                     /\ Call(parsed.bars,
                             DictGet(parsed, "start_time", FloatOfInt(21)),
                             Or(RouteRequest(msg, body).group_size,
                                DictGet(parsed, "group_size", 2)),
                             DictGet(parsed, "is_game_day", FALSE))

\* optimize_route has returned: the infeasible or the success response
\* (optimizer.py:212-283)
Respond ==
    /\ request # None
    /\ response = None
    /\ pc = "done"
    /\ \E generated \in Generations :
           LET parsed      == parse_user_request(request[1].message, bars)
               message     == IF request[1].use_llm THEN generated ELSE None
               llm_used    == IF request[1].use_llm THEN LlmUsed(message) ELSE FALSE
               text        == IF NotText(message)
                              THEN generate_fallback_response(ret.result)
                              ELSE message[1]
           IN  response' = Some(IF ~ret.result.feasible
                                THEN RouteResponse("infeasible", <<>>, 0, text,
                                                   ParsedInfo(parsed), llm_used)
                                ELSE RouteResponse("success", Itinerary(ret.result.steps),
                                                   ret.result.total_wait, text,
                                                   ParsedInfo(parsed), llm_used))
    /\ Release
    /\ UNCHANGED <<ref, request, catalog, peer, model_cache>>

\* optimize_route has raised: except Exception -> HTTPException(500)
\* (optimizer.py:285-291)
Fail ==
    /\ request # None
    /\ response = None
    /\ pc = "raised"
    /\ response' = Some(HTTPException("500"))
    /\ Release
    /\ UNCHANGED <<ref, request, catalog, peer, model_cache>>

\* the response is sent; the handler is ready for the next request
Deliver ==
    /\ response # None
    /\ request' = None
    /\ response' = None
    /\ UNCHANGED <<weekday, pc, bars, start_hour, group_size, is_game_day, valid_bars, perm,
                   best_route, best_result, best_wait, problematic, bar_i, simulations, ret,
                   ref, catalog, peer, model_cache>>

\* messages and bodies tried
NoTime == TimeText("none", 0, 0, "none")

NoGroup == GroupText("none", 0)

BarTexts == {{}, {"Chimy's"}, {"Bar PM", "Chimy's"}, {"Roadhouse"}}

\* no time, "9pm", "3pm", "9:30 am", "20:20", "at 5", "at 3"
TimeTexts ==
    {NoTime, TimeText("12h", 9, 0, "pm"), TimeText("12h", 3, 0, "pm"),
     TimeText("12h_minutes", 9, 30, "am"), TimeText("24h", 20, 20, "none"),
     TimeText("context", 5, 0, "none"), TimeText("context", 3, 0, "none")}

\* no group, "party of 25", "0 friends", "party of 0"
GroupTexts ==
    {NoGroup, GroupText("party of", 25), GroupText("friends", 0), GroupText("party of", 0)}

Messages ==
    [bars : BarTexts, time : TimeTexts, group : GroupTexts, game : BOOLEAN]

GroupSizeFields ==
    {[given |-> "omitted", value |-> 0], [given |-> "null", value |-> 0],
     [given |-> "value", value |-> 1], [given |-> "value", value |-> 20],
     [given |-> "value", value |-> 21]}

Bodies ==
    {[given |-> f.given, value |-> f.value, use_llm |-> u] :
        f \in GroupSizeFields, u \in BOOLEAN}

NextHandler ==
    \/ \E msg \in Messages, body \in Bodies : \E b \in ListsOf(msg.bars) : Post(msg, body, b)
    \/ TryPermutation
    \/ EndSearch
    \/ Diagnose
    \/ Explain
    \/ Respond
    \/ Fail
    \/ Deliver
    \/ Midnight

SpecHandler == Init /\ [][NextHandler]_vars

\* -------------------------------------------------------------------------
\* Calls running concurrently.  Each call has its own locals; BAR_ROSTER and
\* the clock are what the calls share.  Two optimize_route calls interleave
\* statement by statement: the locals of the call that is not running are
\* kept in peer, and a context switch exchanges them.
\* -------------------------------------------------------------------------
Locals ==
    [pc |-> pc, bars |-> bars, start_hour |-> start_hour, group_size |-> group_size,
     is_game_day |-> is_game_day, valid_bars |-> valid_bars, perm |-> perm,
     best_route |-> best_route, best_result |-> best_result, best_wait |-> best_wait,
     problematic |-> problematic, bar_i |-> bar_i, simulations |-> simulations, ret |-> ret]

Switch ==
    /\ pc # "idle" \/ peer.pc # "idle"
    /\ peer' = Locals
    /\ pc' = peer.pc
    /\ bars' = peer.bars
    /\ start_hour' = peer.start_hour
    /\ group_size' = peer.group_size
    /\ is_game_day' = peer.is_game_day
    /\ valid_bars' = peer.valid_bars
    /\ perm' = peer.perm
    /\ best_route' = peer.best_route
    /\ best_result' = peer.best_result
    /\ best_wait' = peer.best_wait
    /\ problematic' = peer.problematic
    /\ bar_i' = peer.bar_i
    /\ simulations' = peer.simulations
    /\ ret' = peer.ret
    /\ UNCHANGED <<weekday, ref, request, response, catalog, model_cache>>

\* get_all_bars (simulation.py:476-486), in the order of BAR_ROSTER.values()
get_all_bars ==
    [i \in 1..Len(RosterOrder) |->
        [name       |-> RosterOrder[i],
         capacity   |-> catalog[RosterOrder[i]].capacity,
         popularity |-> catalog[RosterOrder[i]].popularity,
         base_wait  |-> catalog[RosterOrder[i]].base_wait]]

\* str.lower() on the roster names and the names asked for
Lower(x) ==
    CASE x = "Chimy's" -> "chimy's"
      [] x = "Cricket's" -> "cricket's"
      [] x = "Bier Haus" -> "bier haus"
      [] x = "Atomic" -> "atomic"
      [] x = "Bar PM" -> "bar pm"
      [] x = "BAR PM" -> "bar pm"
      [] x = "Misquetes" -> "misquetes"
      [] x = "Wrecked" -> "wrecked"
      [] x = "The Library" -> "the library"
      [] x = "Bash's" -> "bash's"
      [] x = "Electric Avenue" -> "electric avenue"
      [] x = "Nowhere" -> "nowhere"
      [] OTHER -> x

\* the dict get_bar_info builds for a roster name (simulation.py:493-500)
BarDetails(name) ==
    [name        |-> name,
     capacity    |-> catalog[name].capacity,
     popularity  |-> catalog[name].popularity,
     base_wait   |-> catalog[name].base_wait,
     hours       |-> catalog[name].hours,
     is_open_now |-> is_bar_open(name, FloatOfInt(21), get_day_of_week)]

\* get_bar_info (simulation.py:489-515): exact name, then case-insensitive
get_bar_info(bar_name) ==
    IF bar_name \in DOMAIN catalog THEN Some(BarDetails(bar_name))
    ELSE LET same == {i \in 1..Len(RosterOrder) : Lower(RosterOrder[i]) = Lower(bar_name)}
         IN  IF same = {} THEN None
             ELSE Some(BarDetails(RosterOrder[CHOOSE i \in same : \A j \in same : i <= j]))

\* GET /bars (optimizer.py:294-318)
ListBars ==
    /\ response = None
    /\ response' = Some([bars |-> get_all_bars, count |-> Len(get_all_bars)])
    /\ UNCHANGED <<weekday, pc, bars, start_hour, group_size, is_game_day, valid_bars, perm,
                   best_route, best_result, best_wait, problematic, bar_i, simulations, ret,
                   ref, request, catalog, peer, model_cache>>

\* GET /bars/{bar_name} (optimizer.py:321-338)
GetSingleBar(bar_name) ==
    /\ response = None
    /\ response' = IF get_bar_info(bar_name) = None
                   THEN Some([status |-> "404"])
                   ELSE get_bar_info(bar_name)
    /\ UNCHANGED <<weekday, pc, bars, start_hour, group_size, is_game_day, valid_bars, perm,
                   best_route, best_result, best_wait, problematic, bar_i, simulations, ret,
                   ref, request, catalog, peer, model_cache>>

\* names asked for
BarNames == {"Chimy's", "BAR PM", "Nowhere"}

\* requests of the concurrent calls
ConcurrentLists == {<<"Chimy's", "Bar PM">>, <<"Misquetes", "Wrecked">>, <<"Wrecked">>}

NextConcurrent ==
    \/ \E b \in ConcurrentLists, s \in StartHours :
           Call(b, s, 2, FALSE) /\ UNCHANGED <<request, response, catalog, peer, model_cache>>
    \/ TryPermutation
    \/ EndSearch
    \/ Diagnose
    \/ Explain
    \/ Finish
    \/ Switch
    \/ ListBars
    \/ \E n \in BarNames : GetSingleBar(n)
    \/ Deliver
    \/ (peer.pc = "idle" /\ Midnight)

SpecConcurrent == Init /\ [][NextConcurrent]_vars

\* -------------------------------------------------------------------------
\* The wall clock passes midnight while optimize_route runs: every
\* simulate_route call reads datetime.now() anew (simulation.py:209-212, 351)
\* -------------------------------------------------------------------------
MidnightInCall ==
    /\ pc \in {"perms", "diagnose"}
    /\ weekday' = (weekday % 7) + 1
    /\ UNCHANGED <<pc, bars, start_hour, group_size, is_game_day, valid_bars, perm,
                   best_route, best_result, best_wait, problematic, bar_i, simulations, ret,
                   ref, request, response, catalog, peer, model_cache>>

MidnightLists ==
    {<<"Chimy's", "Bar PM">>, <<"Bar PM", "The Library">>, <<"Misquetes", "Wrecked">>,
     <<"Chimy's", "Bar PM", "Misquetes">>}

NextMidnight ==
    \/ \E b \in MidnightLists, s \in StartHours \cup LateHours, g \in GroupSizes :
           Call(b, s, g, FALSE) /\ UNCHANGED <<request, response, catalog, peer, model_cache>>
    \/ TryPermutation
    \/ EndSearch
    \/ Diagnose
    \/ Explain
    \/ Finish
    \/ Midnight
    \/ MidnightInCall

SpecMidnight == Init /\ [][NextMidnight]_vars

\* -------------------------------------------------------------------------
\* The model cache (services/model.py:44-47, 77-153) and its callers.  Each
\* access of a module global is one step of the calling thread; nothing
\* orders the steps of different threads.  A loaded object is named after
\* the thread that loaded it.
\* -------------------------------------------------------------------------
optimizer_state ==
    <<weekday, pc, bars, start_hour, group_size, is_game_day, valid_bars, perm,
      best_route, best_result, best_wait, problematic, bar_i, simulations, ret, ref,
      request, response, catalog, peer>>

\* thread t moves to position p
Goto(t, p) == threads' = [threads EXCEPT ![t].pc = p]

\* generate_local (model.py:168) or check_model_health (model.py:474)
\* calls load_model_local
StartLoad(t) ==
    /\ threads[t].pc = "idle"
    /\ loads < MaxLoads
    /\ Goto(t, "check")
    /\ UNCHANGED <<optimizer_state, _model, _tokenizer, _model_loaded, loads>>

\* if _model_loaded: the cached path, else the try block (model.py:90-93)
CheckLoaded(t) ==
    /\ threads[t].pc = "check"
    /\ threads' = [threads EXCEPT ![t].pc = IF _model_loaded THEN "return_model"
                                            ELSE "tokenizer",
                                  ![t].path = IF _model_loaded THEN "cached" ELSE "none"]
    /\ UNCHANGED <<optimizer_state, _model, _tokenizer, _model_loaded, loads>>

\* the imports, the quantization config and
\* _tokenizer = AutoTokenizer.from_pretrained(...) (model.py:94-120)
LoadTokenizer(t, ok) ==
    /\ threads[t].pc = "tokenizer"
    /\ IF ok
       THEN _tokenizer' = Some(t) /\ Goto(t, "configure")
       ELSE UNCHANGED _tokenizer /\ Goto(t, "except")
    /\ UNCHANGED <<optimizer_state, _model, _model_loaded, loads>>

\* _tokenizer.pad_token = ...; _tokenizer.padding_side = ... (model.py:121-122):
\* AttributeError when the global is None by now
ConfigureTokenizer(t) ==
    /\ threads[t].pc = "configure"
    /\ Goto(t, IF _tokenizer = None THEN "except" ELSE "base_model")
    /\ UNCHANGED <<optimizer_state, _model, _tokenizer, _model_loaded, loads>>

\* base_model = AutoModelForCausalLM.from_pretrained(...) (model.py:125-132)
LoadBaseModel(t, ok) ==
    /\ threads[t].pc = "base_model"
    /\ Goto(t, IF ok THEN "adapters" ELSE "except")
    /\ UNCHANGED <<optimizer_state, _model, _tokenizer, _model_loaded, loads>>

\* _model = PeftModel.from_pretrained(...) or _model = base_model
\* (model.py:135-140)
LoadAdapters(t, ok) ==
    /\ threads[t].pc = "adapters"
    /\ IF ok
       THEN _model' = Some(t) /\ Goto(t, "eval")
       ELSE UNCHANGED _model /\ Goto(t, "except")
    /\ UNCHANGED <<optimizer_state, _tokenizer, _model_loaded, loads>>

\* _model.eval() (model.py:142): AttributeError when the global is None by now
Eval(t) ==
    /\ threads[t].pc = "eval"
    /\ Goto(t, IF _model = None THEN "except" ELSE "set_loaded")
    /\ UNCHANGED <<optimizer_state, _model, _tokenizer, _model_loaded, loads>>

\* _model_loaded = True (model.py:143): the load sequence has succeeded
SetLoaded(t) ==
    /\ threads[t].pc = "set_loaded"
    /\ _model_loaded' = TRUE
    /\ loads' = loads + 1
    /\ threads' = [threads EXCEPT ![t].pc = "return_model", ![t].path = "loaded"]
    /\ UNCHANGED <<optimizer_state, _model, _tokenizer>>

\* return _model, _tokenizer (model.py:91 and 146): the two globals are read
\* one after the other
ReturnModel(t) ==
    /\ threads[t].pc = "return_model"
    /\ threads' = [threads EXCEPT ![t].pc = "return_tokenizer", ![t].model = _model]
    /\ UNCHANGED <<optimizer_state, _model, _tokenizer, _model_loaded, loads>>

ReturnTokenizer(t) ==
    /\ threads[t].pc = "return_tokenizer"
    /\ threads' = [threads EXCEPT ![t].pc = "returned", ![t].tokenizer = _tokenizer]
    /\ UNCHANGED <<optimizer_state, _model, _tokenizer, _model_loaded, loads>>

\* except Exception: _model = None (model.py:148-150)
ClearModel(t) ==
    /\ threads[t].pc = "except"
    /\ _model' = None
    /\ Goto(t, "clear_tokenizer")
    /\ UNCHANGED <<optimizer_state, _tokenizer, _model_loaded, loads>>

\* _tokenizer = None (model.py:151)
ClearTokenizer(t) ==
    /\ threads[t].pc = "clear_tokenizer"
    /\ _tokenizer' = None
    /\ Goto(t, "clear_loaded")
    /\ UNCHANGED <<optimizer_state, _model, _model_loaded, loads>>

\* _model_loaded = False; return None, None (model.py:152-153)
ClearLoaded(t) ==
    /\ threads[t].pc = "clear_loaded"
    /\ _model_loaded' = FALSE
    /\ threads' = [threads EXCEPT ![t] = [pc |-> "returned", path |-> "failed",
                                          model |-> None, tokenizer |-> None]]
    /\ UNCHANGED <<optimizer_state, _model, _tokenizer, loads>>

\* the caller goes on with the pair it received and ends
\* (model.py:170-206, 475-476)
EndLoad(t) ==
    /\ threads[t].pc = "returned"
    /\ threads' = [threads EXCEPT ![t] = IdleThread]
    /\ UNCHANGED <<optimizer_state, _model, _tokenizer, _model_loaded, loads>>

NextModel ==
    \/ \E t \in Threads : StartLoad(t)
    \/ \E t \in Threads : CheckLoaded(t)
    \/ \E t \in Threads, ok \in BOOLEAN : LoadTokenizer(t, ok)
    \/ \E t \in Threads : ConfigureTokenizer(t)
    \/ \E t \in Threads, ok \in BOOLEAN : LoadBaseModel(t, ok)
    \/ \E t \in Threads, ok \in BOOLEAN : LoadAdapters(t, ok)
    \/ \E t \in Threads : Eval(t)
    \/ \E t \in Threads : SetLoaded(t)
    \/ \E t \in Threads : ReturnModel(t)
    \/ \E t \in Threads : ReturnTokenizer(t)
    \/ \E t \in Threads : ClearModel(t)
    \/ \E t \in Threads : ClearTokenizer(t)
    \/ \E t \in Threads : ClearLoaded(t)
    \/ \E t \in Threads : EndLoad(t)

\* the day of the week plays no part in the cache
InitModel == Init /\ weekday = 1

SpecModel == InitModel /\ [][NextModel]_vars

\* -------------------------------------------------------------------------
\* Vocabulary of the properties
\* -------------------------------------------------------------------------
Min(a, b) == IF a <= b THEN a ELSE b

\* the requested names that are in the roster, in request order
Recognized(list) == SelectSeq(list, LAMBDA x : x \in DOMAIN BAR_ROSTER)

\* the considered venue list: the recognized names, capped at 5
Considered(list) ==
    LET r == Recognized(list)
    IN  [i \in 1..Min(Len(r), MAX_BARS_IN_ROUTE) |-> r[i]]

\* all orderings of n positions
AllPerms(n) == {p \in [1..n -> 1..n] : \A i, j \in 1..n : i # j => p[i] # p[j]}

\* p comes before q in lexicographic order of positions
LexBefore(p, q) ==
    \E i \in 1..Len(p) : p[i] < q[i] /\ \A j \in 1..(i - 1) : p[j] = q[j]

\* what simulate_route gives for permutation p of the considered list of the call
SimOf(p) ==
    simulate_route(RouteOf(Considered(bars), p), start_hour, group_size, is_game_day)

\* the feasible permutations of the considered venues, each with its
\* simulation: <<p, result>>
FeasibleSims ==
    LET all == {<<p, SimOf(p)>> : p \in AllPerms(Len(Considered(bars)))}
    IN  {x \in all : Len(x[1]) > 0 /\ x[2].feasible}

\* x has the minimum total wait of the set F of simulations
IsBest(x, F) == \A y \in F : x[2].total_wait <= y[2].total_wait

Done == pc = "done"

Succeeded == Done /\ ret.route # None

\* minutes after midnight of a formatted time
ClockMinutes(t) == 60 * t[1] + t[2]

\* the open-hours rule on the effective (24-hour clock) arrival time
OpenOnClock(bar_name, t, day) ==
    LET hours == BAR_ROSTER[bar_name].hours[day]
    IN  /\ hours # NoHours
        /\ IF hours[2] > hours[1]
           THEN 60 * hours[1] <= ClockMinutes(t) /\ ClockMinutes(t) < 60 * hours[2]
           ELSE hours[2] < hours[1]
                /\ (ClockMinutes(t) >= 60 * hours[1] \/ ClockMinutes(t) < 60 * hours[2])

StepBars(steps) == [i \in 1..Len(steps) |-> steps[i].bar]

NoRepeats(list) == \A i, j \in 1..Len(list) : i # j => list[i] # list[j]

\* C1: a returned ordering has a total wait no greater than that of any
\* feasible permutation of the considered venue list.
C1_Optimal ==
    Succeeded => \A x \in FeasibleSims : ret.result.total_wait <= x[2].total_wait

\* a call returned an ordering although another feasible ordering waits longer
C1_Witness ==
    /\ Succeeded
    /\ \E x \in FeasibleSims : ret.result.total_wait < x[2].total_wait

\* C2: in every result reported feasible, every step's venue is open at the
\* step's arrival time on the 24-hour clock, also after midnight.
C2_StepsArriveWhenOpen ==
    Done /\ ret.result.feasible =>
        \A i \in 1..Len(ret.result.steps) :
            OpenOnClock(ret.result.steps[i].bar, ret.result.steps[i].arrival, get_day_of_week)

\* C3: every call ends with a pair; the ordering is None exactly when no
\* permutation of the considered venues is feasible, and then the result is
\* infeasible; otherwise the ordering comes with a feasible result.
C3_NoneIffNoFeasible ==
    Done =>
        /\ (ret.route = None) <=> (FeasibleSims = {})
        /\ (ret.route = None) => ~ret.result.feasible
        /\ (ret.route # None) => ret.result.feasible

\* a search over several venues found no feasible ordering
C3_Witness ==
    /\ Done
    /\ Len(Considered(bars)) >= 2
    /\ ret.route = None
    /\ ~ret.result.feasible

\* C4: among the feasible permutations of minimum total wait the one that
\* comes first in lexicographic order of input positions is returned; the
\* input order itself when it is one of them.
C4_FirstBestWins ==
    Succeeded =>
        LET F == FeasibleSims
        IN  \E x \in F :
                /\ IsBest(x, F)
                /\ \A y \in F : IsBest(y, F) => y[1] = x[1] \/ LexBefore(x[1], y[1])
                /\ ret.route[1] = RouteOf(Considered(bars), x[1])
                /\ ret.result = x[2]

\* several orderings of distinct venues tie for the minimum and one is returned
C4_Witness ==
    /\ Succeeded
    /\ NoRepeats(Considered(bars))
    /\ LET F == FeasibleSims
       IN  Cardinality({x \in F : IsBest(x, F)}) >= 2
    /\ ret.route[1] = Considered(bars)

\* C5: a call with the arguments of an earlier call, on the same day of the
\* week, returns the same pair, whatever calls ran in between.
C5_Deterministic ==
    Done /\ ref # None
         /\ ref[1].bars = bars /\ ref[1].start_hour = start_hour
         /\ ref[1].group_size = group_size /\ ref[1].is_game_day = is_game_day
         /\ ref[1].day = get_day_of_week
    => ret = ref[1].ret

\* a later call repeated the arguments and the day of the remembered call
\* and returned an ordering
C5_Witness ==
    /\ Succeeded
    /\ ref # None
    /\ ref[1].bars = bars /\ ref[1].start_hour = start_hour
    /\ ref[1].group_size = group_size /\ ref[1].is_game_day = is_game_day
    /\ ref[1].day = get_day_of_week
    /\ ret = ref[1].ret

\* C6: with more than 5 recognized venues requested, a returned ordering is
\* a permutation of the first 5 of them and the result has exactly those 5 steps.
C6_CappedAtFive ==
    Succeeded /\ Len(Recognized(bars)) > MAX_BARS_IN_ROUTE =>
        /\ Len(ret.route[1]) = MAX_BARS_IN_ROUTE
        /\ \E p \in AllPerms(MAX_BARS_IN_ROUTE) :
               ret.route[1] = RouteOf(SubSeq(Recognized(bars), 1, MAX_BARS_IN_ROUTE), p)
        /\ StepBars(ret.result.steps) = ret.route[1]

\* an ordering was returned for a request of more than 5 recognized venues
C6_Witness ==
    /\ Succeeded
    /\ Len(Recognized(bars)) > MAX_BARS_IN_ROUTE
    /\ Len(ret.result.steps) = MAX_BARS_IN_ROUTE

\* C7: no venue appears twice in a returned ordering or in its steps, and a
\* repeated id takes one slot of the cap: the distinct recognized venues
\* that fit the cap are all in the ordering.
C7_Deduplicated ==
    Succeeded =>
        /\ NoRepeats(ret.route[1])
        /\ NoRepeats(StepBars(ret.result.steps))
        /\ Cardinality({Recognized(bars)[i] : i \in 1..Len(Recognized(bars))})
               <= MAX_BARS_IN_ROUTE
           => \A i \in 1..Len(Recognized(bars)) :
                  \E k \in 1..Len(ret.route[1]) : ret.route[1][k] = Recognized(bars)[i]

\* C8: when no requested id is in the roster, the call returns None with an
\* infeasible result, total wait 0 and no steps, without any simulation; the
\* reason says that no bars were recognized ("No bars specified" for the
\* empty request, "No recognized bars" otherwise).
C8_NothingRecognized ==
    Done /\ Len(Recognized(bars)) = 0 =>
        /\ ret.route = None
        /\ ~ret.result.feasible
        /\ ret.result.total_wait = 0
        /\ ret.result.steps = <<>>
        /\ simulations = 0
        /\ ret.result.reason =
               IF Len(bars) = 0 THEN Reason("No bars specified", <<>>, <<>>)
               ELSE Reason("No recognized bars", <<>>, <<>>)

\* a request naming only ids outside the roster has returned
C8_Witness ==
    /\ Done
    /\ Len(bars) > 0
    /\ Len(Recognized(bars)) = 0
    /\ ret.route = None

\* arrival hours on both sides of every tier, before and after midnight
TierHours == {FloatOfInt(h) : h \in {0, 19, 20, 21, 22, 23, 25}}

\* C9: the wait is an integer >= 1, equal to max(1, round(product)), for
\* every roster venue, arrival hour, group size and event flag, and so in
\* every step of every feasible result.
C9_WaitAtLeastOne ==
    /\ pc = "idle" =>
           \A name \in DOMAIN BAR_ROSTER, h \in TierHours \cup StartHours,
              g \in 1..20, game \in BOOLEAN :
               LET p == WaitProduct(BAR_ROSTER[name], h, g, game)
                   w == calculate_wait_time(name, h, g, game)
               IN  w >= 1 /\ w = Max(1, RoundHalfEven(p[1], p[2]))
    /\ Done /\ ret.result.feasible =>
           \A i \in 1..Len(ret.result.steps) : ret.result.steps[i].wait >= 1
    /\ best_result # None =>
           \A i \in 1..Len(best_result[1].steps) : best_result[1].steps[i].wait >= 1

\* a feasible result with several steps, one of them with the shortest wait of the roster
C9_Witness ==
    /\ Succeeded
    /\ Len(ret.result.steps) >= 2
    /\ \E i \in 1..Len(ret.result.steps) : ret.result.steps[i].wait = 8

\* C10: in every step of a feasible result the departure is the arrival plus
\* the wait plus the 60-minute stay (on the 24-hour clock), and the first
\* arrival is the requested start hour.
C10_DepartureIsArrivalPlusWaitPlusStay ==
    Done /\ ret.result.feasible =>
        /\ \A i \in 1..Len(ret.result.steps) :
               ClockMinutes(ret.result.steps[i].depart)
                   = (ClockMinutes(ret.result.steps[i].arrival)
                      + ret.result.steps[i].wait + STAY_DURATION_MINUTES) % 1440
        /\ Len(ret.result.steps) > 0 =>
               ClockMinutes(ret.result.steps[1].arrival) = start_hour.m % 1440

\* C11: for consecutive steps i, i+1 of a feasible result, the arrival of
\* step i+1 is the departure of step i plus exactly the 7 minutes of travel
\* (on the 24-hour clock); the first arrival is the start, with no travel
\* before it.
C11_TravelAfterDeparture ==
    Done /\ ret.result.feasible =>
        /\ \A i \in 1..(Len(ret.result.steps) - 1) :
               ClockMinutes(ret.result.steps[i + 1].arrival)
                   = (ClockMinutes(ret.result.steps[i].depart) + TRAVEL_TIME_MINUTES) % 1440
        /\ Len(ret.result.steps) > 0 =>
               ret.result.steps[1].arrival = format_time(start_hour)

\* the venues of the considered list with no hours on the day of the call
ClosedAllDay(list) ==
    SelectSeq(list, LAMBDA b : BAR_ROSTER[b].hours[get_day_of_week] = NoHours)

\* C12: a request whose only catalog venue has no hours on the day returns
\* None with an infeasible result whose reason names that venue as closed,
\* for every start hour.
C12_ClosedAllDay ==
    Done /\ Len(Considered(bars)) = 1 /\ ClosedAllDay(Considered(bars)) # <<>> =>
        /\ ret.route = None
        /\ ~ret.result.feasible
        /\ ret.result.reason.kind = "is closed at"
        /\ ret.result.reason.names = Considered(bars)
        /\ ret.result.reason.at = format_time(start_hour)

\* a request for one venue with no hours on the day has returned
C12_Witness ==
    /\ Done
    /\ bars = <<"Bar PM">>
    /\ get_day_of_week = "sunday"
    /\ ret.route = None
    /\ ret.result.reason.names = <<"Bar PM">>

\* the handler has called optimize_route and the call is not released yet
HandlerCall == request # None /\ pc # "idle"

\* C13: when the parser finds no start time, the handler calls
\* optimize_route with start_hour 21.0, never None, and the call does not
\* end in an exception (the response is a success or an infeasible one).
C13_StartTimeDefaulted ==
    HandlerCall /\ parse_user_request(request[1].message, bars).start_time = None =>
        /\ start_hour # None
        /\ start_hour = FloatOfInt(21)
        /\ pc # "raised"

\* C14: in every call of optimize_route made by the handler, group_size is
\* an integer within 1..20, whether the body gives, omits or nulls it.
C14_GroupSizeInRange ==
    HandlerCall => 1 <= group_size /\ group_size <= 20

\* C15: in every call of optimize_route made by the handler, start_hour is
\* a number within MIN_START_HOUR..MAX_START_HOUR.
C15_StartHourInRange ==
    HandlerCall =>
        /\ start_hour # None
        /\ FloatGE(start_hour, MIN_START_HOUR)
        /\ (FloatLT(start_hour, MAX_START_HOUR) \/ start_hour = FloatOfInt(MAX_START_HOUR))

\* C17: on success the returned result is the simulation of the returned
\* ordering: the venue names of its steps are the ordering, element by
\* element, and its total wait is what simulate_route gives for the ordering.
C17_ResultOfReturnedOrdering ==
    Succeeded =>
        LET sim == simulate_route(ret.route[1], start_hour, group_size, is_game_day)
        IN  /\ StepBars(ret.result.steps) = ret.route[1]
            /\ ret.result.total_wait = sim.total_wait
            /\ ret.result = sim

\* an ordering other than the input order was returned with its steps
C17_Witness ==
    /\ Succeeded
    /\ Len(ret.route[1]) >= 2
    /\ ret.route[1] # Considered(bars)
    /\ StepBars(ret.result.steps) = ret.route[1]

RECURSIVE SumWaits(_)
SumWaits(steps) ==
    IF steps = <<>> THEN 0 ELSE steps[1].wait + SumWaits(Tail(steps))

\* r is a feasible result for route: one step per venue in order, the total
\* the sum of the waits, no reason
FeasibleShape(r, route) ==
    /\ StepBars(r.steps) = route
    /\ r.total_wait = SumWaits(r.steps)
    /\ r.reason = NoReason

\* C18: every feasible result of simulate_route has exactly one step per
\* venue of the route, in visitation order, total_wait the sum of the step
\* waits, and reason None.
C18_FeasibleResultShape ==
    /\ pc = "idle" =>
           \A route \in BarLists, s \in StartHours :
               LET r == simulate_route(route, s, group_size, is_game_day)
               IN  r.feasible => FeasibleShape(r, route)
    /\ best_result # None => FeasibleShape(best_result[1], best_route[1])
    /\ Done /\ ret.result.feasible => FeasibleShape(ret.result, ret.route[1])

\* a feasible result with several steps of different waits
C18_Witness ==
    /\ Succeeded
    /\ Len(ret.result.steps) >= 3
    /\ ret.result.steps[1].wait # ret.result.steps[2].wait
    /\ ret.result.total_wait = SumWaits(ret.result.steps)
    /\ ret.result.reason = NoReason

\* r is an infeasible result: nothing of the simulation is kept but a reason
InfeasibleShape(r) ==
    /\ r.total_wait = 0
    /\ r.steps = <<>>
    /\ r.reason # NoReason

\* C19: every infeasible result of simulate_route or optimize_route has
\* total_wait 0, no steps and a reason, also when earlier venues of the
\* ordering had been simulated successfully.
C19_InfeasibleResultEmpty ==
    /\ pc = "idle" =>
           \A route \in BarLists, s \in StartHours :
               LET r == simulate_route(route, s, group_size, is_game_day)
               IN  ~r.feasible => InfeasibleShape(r)
    /\ Done /\ ~ret.result.feasible => ret.route = None /\ InfeasibleShape(ret.result)

\* a search ended infeasible although some ordering failed only after its
\* first venue had been simulated successfully
C19_Witness ==
    /\ Done
    /\ ~ret.result.feasible
    /\ InfeasibleShape(ret.result)
    /\ \E p \in AllPerms(Len(Considered(bars))) :
           /\ Len(p) >= 2
           /\ ~SimOf(p).feasible
           /\ simulate_route(<<Considered(bars)[p[1]]>>, start_hour, group_size,
                             is_game_day).feasible

\* the simulation of the first k venues of a route
SimPrefix(route, k, s) ==
    simulate_route(SubSeq(route, 1, k), s, group_size, is_game_day)

\* the position at which the simulation of a route stops: the shortest
\* prefix that is infeasible
StopsAt(route, s) ==
    CHOOSE k \in 1..Len(route) :
        /\ ~SimPrefix(route, k, s).feasible
        /\ \A j \in 1..(k - 1) : SimPrefix(route, j, s).feasible

\* C20: an infeasible simulation stops at the first venue, in route order,
\* that is unknown or closed at its computed arrival time (on the 24-hour
\* clock): every venue before it was known and open when reached, the reason
\* names it ("Unknown bar" when it is not in the roster, checked before the
\* opening hours), and the venues after it have no effect on the result.
C20_AbortsAtFirstFailure ==
    pc = "idle" =>
        \A route \in BarLists, s \in StartHours :
            LET r == simulate_route(route, s, group_size, is_game_day)
            IN  ~r.feasible =>
                    LET k      == StopsAt(route, s)
                        before == SimPrefix(route, k - 1, s)
                    IN  /\ r = SimPrefix(route, k, s)
                        /\ r.reason.names = <<route[k]>>
                        /\ r.reason.kind = IF route[k] \notin DOMAIN BAR_ROSTER
                                           THEN "Unknown bar" ELSE "is closed at"
                        /\ route[k] \in DOMAIN BAR_ROSTER =>
                               ~OpenOnClock(route[k], r.reason.at, get_day_of_week)
                        /\ \A j \in 1..(k - 1) :
                               /\ route[j] \in DOMAIN BAR_ROSTER
                               /\ OpenOnClock(route[j], before.steps[j].arrival,
                                              get_day_of_week)

\* the closed venues a failed search reports: those that fail when simulated alone
ClosedAlone(valid, s, g, game, day) ==
    SelectSeq(valid, LAMBDA b : ~simulate_route_on(<<b>>, s, g, game, day).feasible)

\* what optimize_route returns for its arguments on a day when it runs alone
RunAlone(b, s, g, game, day) ==
    IF Len(b) = 0
    THEN Returned(None, InfeasibleResult(Reason("No bars specified", <<>>, <<>>)))
    ELSE IF Len(Recognized(b)) = 0
    THEN Returned(None, InfeasibleResult(Reason("No recognized bars", <<>>, <<>>)))
    ELSE LET valid == Considered(b)
             sims  == {<<p, simulate_route_on(RouteOf(valid, p), s, g, game, day)>> :
                          p \in AllPerms(Len(valid))}
             F     == {x \in sims : x[2].feasible}
         IN  IF F = {}
             THEN IF Len(valid) = 1
                  THEN Returned(None, simulate_route_on(valid, s, g, game, day))
                  ELSE Returned(None, InfeasibleResult(
                                          ClosedReason(ClosedAlone(valid, s, g, game, day))))
             ELSE LET x == CHOOSE x \in F :
                               /\ IsBest(x, F)
                               /\ \A y \in F : IsBest(y, F) =>
                                      y[1] = x[1] \/ LexBefore(x[1], y[1])
                  IN  Returned(Some(RouteOf(valid, x[1])), x[2])

\* C16: no interleaving of optimize_route calls (with their simulate_route
\* calls), get_all_bars and get_bar_info changes BAR_ROSTER, and each of two
\* concurrent optimize_route calls returns what it returns when run alone
\* with the same arguments on the same day.
C16_NoInterference ==
    /\ catalog = BAR_ROSTER
    /\ Done => ret = RunAlone(bars, start_hour, group_size, is_game_day, get_day_of_week)
    /\ peer.pc = "done" =>
           peer.ret = RunAlone(peer.bars, peer.start_hour, peer.group_size,
                               peer.is_game_day, get_day_of_week)

\* two searches with different requests overlapped and both returned, one an
\* ordering, while a catalog read was being answered
C16_Witness ==
    /\ Done
    /\ peer.pc = "done"
    /\ bars # peer.bars
    /\ simulations >= 2
    /\ peer.simulations >= 2
    /\ ret.route # None
    /\ response # None

\* the considered venues that are closed at the start hour of the call on
\* the 24-hour clock, in input order
ClosedAtStart ==
    SelectSeq(Considered(bars),
              LAMBDA b : ~OpenOnClock(b, format_time(start_hour), get_day_of_week))

\* C21: when two or more venues are considered and no permutation is
\* feasible, the reason lists exactly the considered venues closed at the
\* start hour, in input order, and is the generic message when none is.
C21_DiagnosticNamesClosed ==
    Done /\ Len(Considered(bars)) >= 2 /\ FeasibleSims = {} =>
        /\ ret.route = None
        /\ ret.result.reason =
               IF ClosedAtStart # <<>>
               THEN Reason("These bars are closed at that time", ClosedAtStart, <<>>)
               ELSE Reason("No feasible route found", <<>>, <<>>)

\* a failed search over several venues some of which, not all, are closed
\* at the start hour
C21_Witness ==
    /\ Done
    /\ Len(Considered(bars)) >= 3
    /\ FeasibleSims = {}
    /\ ret.result.reason.kind = "These bars are closed at that time"
    /\ Len(ret.result.reason.names) >= 2
    /\ Len(ret.result.reason.names) < Len(Considered(bars))

\* the wait at a venue reached at clock time t: the time-of-day tier is
\* that of the hour of t on the 24-hour clock
WaitOnClock(bar_name, t) ==
    calculate_wait_time(bar_name, FloatOfInt(t[1]), group_size, is_game_day)

\* C22: the time-of-day multiplier of every step is the tier of its arrival
\* hour on the 24-hour clock (>= 22: 1.4, 21: 1.2, 20: 1.1, below 20: 1.0),
\* so a venue reached at a clock time after midnight waits as it does when
\* that clock time is the start hour.
C22_TierOfClockHour ==
    Done /\ ret.result.feasible =>
        \A i \in 1..Len(ret.result.steps) :
            ret.result.steps[i].wait
                = WaitOnClock(ret.result.steps[i].bar, ret.result.steps[i].arrival)

\* the time-of-day multiplier of a whole hour h of the 24-hour clock, in tenths
TierOfHour(h) == IF h >= 22 THEN 14 ELSE IF h = 21 THEN 12 ELSE IF h = 20 THEN 11 ELSE 10

\* base_wait x time multiplier x (1 + (popularity - 3) x 0.08)
\* x (1 + max(0, group_size - 2) x 0.05) x (1.5 or 1.0), times 10^6
ProductMillionths(base, pop, h, g, game) ==
    base * TierOfHour(h) * (100 + (pop - 3) * 8) * (100 + Max(0, g - 2) * 5)
         * (IF game THEN 15 ELSE 10)

\* w is the product rounded to an integer: no integer is nearer
IsRounded(w, millionths) ==
    /\ 2 * (w * 1000000 - millionths) <= 1000000
    /\ 2 * (millionths - w * 1000000) <= 1000000

\* the venue of the example: base_wait 15, popularity 5
ExampleVenue == [base_wait |-> 15, popularity |-> 5]

HandlerRan(req) ==
    req[1].group_size = None \/ (1 <= req[1].group_size[1] /\ req[1].group_size[1] <= 20)

RECURSIVE SumExpectedWaits(_)
SumExpectedWaits(stops) ==
    IF stops = <<>> THEN 0 ELSE stops[1].expected_wait + SumExpectedWaits(Tail(stops))

\* the step in which the handler produces its response
HandlerResponds ==
    request' # None /\ HandlerRan(request') /\ response = None /\ response' # None

\* C24: every response of the handler has status success, infeasible or
\* error: error exactly when the parser found no bars; success exactly when
\* optimize_route returned a feasible result, with one stop per step in
\* order and total_wait_time the sum of the stops' waits; infeasible
\* otherwise, with no stops and total 0.
C24_ResponseStatus ==
    [][HandlerResponds =>
          /\ response'[1].status \in {"success", "infeasible", "error"}
          /\ response'[1].status = "error" <=> request'[1].message.bars = {}
          /\ response'[1].status = "success" <=> (pc = "done" /\ ret.result.feasible)
          /\ response'[1].status = "success" =>
                 /\ Len(response'[1].itinerary) = Len(ret.result.steps)
                 /\ \A i \in 1..Len(ret.result.steps) :
                        /\ response'[1].itinerary[i].venue_name = ret.result.steps[i].bar
                        /\ response'[1].itinerary[i].expected_wait = ret.result.steps[i].wait
                 /\ response'[1].total_wait_time
                        = SumExpectedWaits(response'[1].itinerary)
          /\ response'[1].status = "infeasible" =>
                 /\ response'[1].itinerary = <<>>
                 /\ response'[1].total_wait_time = 0
      ]_vars

\* the texts that do not come from the LLM backend
RuleBasedTexts ==
    {NoBarsText, "I couldn't find a feasible route",
     "I found a route but couldn't format it", "Here's your optimized bar hopping route!"}

\* C25: in every response of the handler llm_used is true exactly when the
\* returned message is the text generated by the LLM backend; with the
\* rule-based fallback or the fixed no-bars text it is false.
C25_LlmUsedIffGenerated ==
    response # None /\ response[1].status \in {"success", "infeasible", "error"} =>
        (response[1].llm_used <=> response[1].message \notin RuleBasedTexts)

\* C30: when the body does not supply group_size, the optimization runs
\* with the group size extracted from the message, the one parsed_info
\* reports; a supplied group_size takes precedence.
C30_GroupSizeFromMessage ==
    HandlerCall =>
        LET parsed_info == ParsedInfo(parse_user_request(request[1].message, bars))
        IN  IF "group_size" \notin request[1].fields_set
            THEN group_size = parsed_info.group_size
            ELSE request[1].group_size # None => group_size = request[1].group_size[1]

\* C29: the bar list the handler passes to optimize_route is a function of
\* the message alone: whatever order list(found_bars) can produce for the
\* names found in the message, the list passed is the same.
C29_ListDeterminedByMessage ==
    HandlerCall => \A b \in ListsOf(request[1].message.bars) : bars = b

\* C26: the local model is loaded once and cached: under any interleaving
\* of the callers of load_model_local the load sequence runs to success at
\* most once, and once it has succeeded the cache stays filled, so that
\* every later call takes the cached path.
C26_LoadedOnce ==
    /\ loads <= 1
    /\ loads >= 1 => _model_loaded

\* C27: whenever _model_loaded is True, _model and _tokenizer are both
\* non-None, and no caller that took the cached path receives (None, None).
C27_LoadedImpliesModel ==
    /\ _model_loaded => (_model # None /\ _tokenizer # None)
    /\ \A t \in Threads :
           threads[t].pc = "returned" /\ threads[t].path = "cached" =>
               ~(threads[t].model = None /\ threads[t].tokenizer = None)

\* C28: within one optimize_route call every permutation and every
\* diagnostic re-simulation is evaluated against the same day of the week:
\* whatever the wall clock does during the call, the returned pair is the
\* one the call returns on some single day.
C28_OneDayPerCall ==
    Done => \E d \in DOMAIN Days :
                ret = RunAlone(bars, start_hour, group_size, is_game_day, Days[d])

====
